---- MODULE Spec2Model ----
(***************************************************************************)
(* Model of the paginated trip dashboard (offset-based pagination, filter  *)
(* form, in-flight guard flag isLoading).  Every handler runs to its first *)
(* await as one step; every await (fetch, response.json) is a suspension   *)
(* point whose completion is a step of its own.                            *)
(***************************************************************************)
EXTENDS Integers, Sequences, FiniteSets, TLC

\* ---------------------------------------------------------------- bounds
\* Highest page the user navigates to.
MaxPage == 3
\* Largest number of filter inputs the user has filled in at one time.
MaxFilled == 1
\* Longest series handed to createBarChart and largest count in it.
MaxBars == 3
MaxCount == 2
\* Longest label handed to formatLabel.
MaxLabelLen == 3
\* Largest number of trip loads the chart dashboard issues.
MaxTripLoads == 2
\* Largest number of chart loads of the chart dashboard suspended at once.
MaxChartCalls == 2
\* Longest array /analytics/busiest-hours answers with.
MaxHours == 3

\* ------------------------------------------------------ program constants
itemsPerPage == 50

\* The four filter inputs of the form and the keys applyFilters writes.
FilterKeys == {"time_of_day", "speed_category", "min_distance", "max_distance"}

\* Values an input element can hold: empty, or a chosen/typed value.
InputValues == {"", "v"}

\* Lengths of the array GET /api/trips can answer with.
RowCounts == {0, itemsPerPage - 1, itemsPerPage, itemsPerPage + 1}

VARIABLES
    currentPage,      \* let currentPage
    currentFilters,   \* let currentFilters (object: key -> non-empty value)
    isLoading,        \* let isLoading
    domLoaded,        \* DOMContentLoaded has fired
    inputs,           \* value of the four filter input elements
    statsPc,          \* loadStatistics: "idle" | "fetch" | "json" | "done"
    statTiles,        \* the four stat tiles: "blank" | "rendered"
    errorBanners,     \* number of showError banners currently in the page
    chartsPc,         \* loadCharts: "idle" | "await" | "done"
    chartPc,          \* per chart: "idle" | "fetch" | "json" | "done"
    chartBox,         \* per chart container: "blank" | "loading" | "failed" | "nodata" | "bars"
    tripLoads,        \* suspended loadTrips invocations, each with its request
    tableContainer,   \* #tableContainer: [kind, rows]
    pageText,         \* #currentPage textContent (0: not written yet)
    prevBtn,          \* prevBtn.disabled
    nextBtn,          \* nextBtn.disabled
    applyBtn,         \* applyBtn: [disabled, text]
    lastCall,         \* history: last handler invoked and isLoading on its entry
    series,           \* createBarChart: the data argument (label, value items)
    barBox,           \* createBarChart: container, "blank" | "nodata" | "bars"
    barHeights,       \* createBarChart: style.height of each bar, in percent
    barLabels,        \* createBarChart: text of each bar label
    label,            \* formatLabel: the argument
    labelOnce,        \* formatLabel(label)
    labelTwice,       \* formatLabel(formatLabel(label))
    labelStage,       \* number of applications of formatLabel made so far
    dashLoaded,       \* chart dashboard: DOMContentLoaded has fired
    overlayHidden,    \* #loading-overlay has class "hidden"
    initPc,           \* initDashboard: "idle" | "await" | "done"
    calls,            \* suspended load functions, each awaiting fetchData
    tiles,            \* stat tiles: "static" | "partial" | "rendered"
    canvas,           \* per canvas: chart variable set, live and destroyed instances
    tbody,            \* #trips-tbody and #trips-count: [req, state]
    insightText,      \* per insight: its text has been written
    dashInputs,       \* hour-filter, day-filter, category-filter values
    issued,           \* history: number of /trips requests issued
    lastAlert,        \* history: alert() raised by the latest step
    lastShow,         \* history: who called showLoading last
    hours,            \* the array /analytics/busiest-hours answers with
    peakHours         \* #insight-peak-hours textContent

globals   == <<currentPage, currentFilters, isLoading>>
statsVars == <<statsPc, statTiles, errorBanners>>
chartVars == <<chartsPc, chartPc, chartBox>>
tripDom   == <<tableContainer, pageText, prevBtn, nextBtn>>
barVars   == <<series, barBox, barHeights, barLabels>>
labelVars == <<label, labelOnce, labelTwice, labelStage>>
pageVars  == <<currentPage, currentFilters, isLoading, domLoaded, inputs,
               statsPc, statTiles, errorBanners, chartsPc, chartPc, chartBox,
               tripLoads, tableContainer, pageText, prevBtn, nextBtn, applyBtn,
               lastCall>>
\* Everything that is not state of the paginated dashboard.
dashVars  == <<dashLoaded, overlayHidden, initPc, calls, tiles, canvas, tbody,
               insightText, dashInputs, issued, lastAlert, lastShow,
               hours, peakHours>>
nonPageVars == <<barVars, labelVars, dashVars>>
vars == <<pageVars, barVars, labelVars, dashVars>>

Charts == {"timeChart", "speedChart"}

EmptyFilters == [k \in {} |-> ""]

ApplyIdle == [disabled |-> FALSE, text |-> "Apply Filters"]
ApplyBusy == [disabled |-> TRUE, text |-> "Applying..."]

Box(kind, rows) == [kind |-> kind, rows |-> rows]

Call(op, blocked) == [op |-> op, blocked |-> blocked]

\* Remove the i-th element of a sequence.
RemoveAt(s, i) == [j \in 1..(Len(s) - 1) |-> IF j < i THEN s[j] ELSE s[j + 1]]

\* No bar chart drawn and no label formatted yet.
barIdle ==
    /\ series = <<>>
    /\ barBox = "blank"
    /\ barHeights = <<>>
    /\ barLabels = <<>>

labelIdle ==
    /\ label = <<>>
    /\ labelOnce = <<>>
    /\ labelTwice = <<>>
    /\ labelStage = 0

\* The paginated dashboard after its script has been evaluated.
pageInit ==
    /\ currentPage = 1
    /\ currentFilters = EmptyFilters
    /\ isLoading = FALSE
    /\ domLoaded = FALSE
    /\ inputs = [k \in FilterKeys |-> ""]
    /\ statsPc = "idle"
    /\ statTiles = "blank"
    /\ errorBanners = 0
    /\ chartsPc = "idle"
    /\ chartPc = [c \in Charts |-> "idle"]
    /\ chartBox = [c \in Charts |-> "blank"]
    /\ tripLoads = <<>>
    /\ tableContainer = Box("static", 0)
    /\ pageText = 0
    /\ prevBtn \in BOOLEAN
    /\ nextBtn \in BOOLEAN
    /\ applyBtn = ApplyIdle
    /\ lastCall = Call("none", FALSE)

\* The paginated dashboard with its buttons enabled in the markup.
pageIdle == pageInit /\ prevBtn = FALSE /\ nextBtn = FALSE

\* The four canvases of the chart dashboard and its three filter inputs.
Canvases == {"hourly", "daily", "speed", "duration"}
DashFilterKeys == {"hour", "day", "category"}

\* The chart dashboard after its script has been evaluated: listeners
\* registered, nothing loaded, overlay as in the markup.
dashInit ==
    /\ dashLoaded = FALSE
    /\ overlayHidden \in BOOLEAN
    /\ initPc = "idle"
    /\ calls = <<>>
    /\ tiles = "static"
    /\ canvas = [c \in Canvases |-> [set |-> FALSE, live |-> 0, destroyed |-> FALSE]]
    /\ tbody = [req |-> 0, state |-> "static"]
    /\ insightText = [k \in 1..3 |-> FALSE]
    /\ dashInputs = [k \in DashFilterKeys |-> ""]
    /\ issued = 0
    /\ lastAlert = "none"
    /\ lastShow = "none"

\* The chart dashboard with its overlay visible in the markup.
dashIdle == dashInit /\ overlayHidden = FALSE

\* The peak-hours insight as in the markup, and a backend whose busiest-hours
\* aggregate holds one hour.
insightIdle ==
    /\ hours = <<[pickup_hour |-> 18, trip_count |-> 1]>>
    /\ peakHours = [text |-> "static"]

Init == pageInit /\ barIdle /\ labelIdle /\ dashIdle /\ insightIdle

\* ------------------------------------------------------------- loadTrips
\* Variant: the offset is computed from the page number itself.
tripParamsOffByOne(page, filters) ==
    [limit |-> itemsPerPage, offset |-> page * itemsPerPage, filters |-> filters]

\* Query string of the request loadTrips builds.
tripParams(page, filters) ==
    [limit |-> itemsPerPage, offset |-> (page - 1) * itemsPerPage, filters |-> filters]

\* Variant: loadTrips without its re-entrancy guard.
loadTripsUnguarded(loading, page, filters, awaited) ==
    /\ isLoading' = TRUE
    /\ tableContainer' = Box("loading", 0)
    /\ prevBtn' = TRUE
    /\ nextBtn' = TRUE
    /\ tripLoads' = Append(tripLoads,
           [stage |-> "fetch", params |-> tripParams(page, filters),
            awaited |-> awaited])

\* loadTrips up to its first await.  `loading` is isLoading on entry, `page`
\* and `filters` are the globals at that moment, `awaited` tells whether the
\* caller (applyFilters) awaits the returned promise.
loadTrips(loading, page, filters, awaited) ==
    IF loading
    THEN /\ isLoading' = loading
         /\ UNCHANGED <<tripLoads, tableContainer, prevBtn, nextBtn>>
    ELSE /\ isLoading' = TRUE
         /\ tableContainer' = Box("loading", 0)
         /\ prevBtn' = TRUE
         /\ nextBtn' = TRUE
         /\ tripLoads' = Append(tripLoads,
                [stage |-> "fetch", params |-> tripParams(page, filters),
                 awaited |-> awaited])

\* Variant: the flag is not cleared when a load ends.
tripsFinallyKeepsFlag(i) ==
    /\ isLoading' = isLoading
    /\ tripLoads' = RemoveAt(tripLoads, i)
    /\ applyBtn' = IF tripLoads[i].awaited THEN ApplyIdle ELSE applyBtn

\* The finally block of loadTrips, followed by the finally block of an
\* applyFilters that awaits it.
tripsFinally(i) ==
    /\ isLoading' = FALSE
    /\ tripLoads' = RemoveAt(tripLoads, i)
    /\ applyBtn' = IF tripLoads[i].awaited THEN ApplyIdle ELSE applyBtn

\* The catch block of loadTrips.
tripsCatch(i) ==
    /\ tableContainer' = Box("error", 0)
    /\ prevBtn' = FALSE
    /\ nextBtn' = FALSE
    /\ UNCHANGED pageText
    /\ tripsFinally(i)

\* await fetch(...) settles: resolved with a response, or rejected.
TripsFetchSettles(i, ok) ==
    /\ tripLoads[i].stage = "fetch"
    /\ IF ok
       THEN /\ tripLoads' = [tripLoads EXCEPT ![i].stage = "json"]
            /\ UNCHANGED <<isLoading, applyBtn, tripDom>>
       ELSE tripsCatch(i)
    /\ UNCHANGED <<currentPage, currentFilters, domLoaded, inputs, statsVars,
                   chartVars, lastCall>>

\* Variant: "next" stays enabled only for more than a full page.
TripsRowsFullPageEnds(i, r) ==
    /\ tripLoads[i].stage = "json"
    /\ IF r = 0
       THEN /\ tableContainer' = Box("empty", 0)
            /\ prevBtn' = (currentPage <= 1)
            /\ nextBtn' = TRUE
            /\ UNCHANGED pageText
       ELSE /\ tableContainer' = Box("table", r)
            /\ pageText' = currentPage
            /\ prevBtn' = (currentPage <= 1)
            /\ nextBtn' = (r <= itemsPerPage)
    /\ tripsFinally(i)
    /\ UNCHANGED <<currentPage, currentFilters, domLoaded, inputs, statsVars,
                   chartVars, lastCall>>

\* await response.json() resolves with an array of r well-formed trips.
TripsRows(i, r) ==
    /\ tripLoads[i].stage = "json"
    /\ IF r = 0
       THEN /\ tableContainer' = Box("empty", 0)
            /\ prevBtn' = (currentPage <= 1)
            /\ nextBtn' = TRUE
            /\ UNCHANGED pageText
       ELSE /\ tableContainer' = Box("table", r)
            /\ pageText' = currentPage
            /\ prevBtn' = (currentPage <= 1)
            /\ nextBtn' = (r < itemsPerPage)
    /\ tripsFinally(i)
    /\ UNCHANGED <<currentPage, currentFilters, domLoaded, inputs, statsVars,
                   chartVars, lastCall>>

\* await response.json() rejects (body is not JSON), or the parsed value is
\* not an array of well-formed trips so that building the rows throws.
TripsBad(i) ==
    /\ tripLoads[i].stage = "json"
    /\ tripsCatch(i)
    /\ UNCHANGED <<currentPage, currentFilters, domLoaded, inputs, statsVars,
                   chartVars, lastCall>>

\* -------------------------------------------------------- loadStatistics
\* showError: a banner is inserted and removed again 5 s later.
showError == errorBanners' = errorBanners + 1

\* loadStatistics up to its first await.
loadStatistics == statsPc' = "fetch"

\* await fetch('/api/stats') settles.
StatsFetchSettles(ok) ==
    /\ statsPc = "fetch"
    /\ IF ok
       THEN statsPc' = "json" /\ UNCHANGED <<statTiles, errorBanners>>
       ELSE statsPc' = "done" /\ showError /\ UNCHANGED statTiles
    /\ UNCHANGED <<globals, domLoaded, inputs, chartVars, tripLoads, tripDom,
                   applyBtn, lastCall>>

\* await response.json() resolves with a complete summary object.
StatsRendered ==
    /\ statsPc = "json"
    /\ statsPc' = "done"
    /\ statTiles' = "rendered"
    /\ UNCHANGED <<errorBanners, globals, domLoaded, inputs, chartVars,
                   tripLoads, tripDom, applyBtn, lastCall>>

\* await response.json() rejects, or total_trips is missing and formatting
\* the first tile throws.
StatsBad ==
    /\ statsPc = "json"
    /\ statsPc' = "done"
    /\ showError
    /\ UNCHANGED <<statTiles, globals, domLoaded, inputs, chartVars, tripLoads, tripDom,
                   applyBtn, lastCall>>

\* The setTimeout callback of showError.
BannerTimeout ==
    /\ errorBanners > 0
    /\ errorBanners' = errorBanners - 1
    /\ UNCHANGED <<statsPc, statTiles, globals, domLoaded, inputs, chartVars,
                   tripLoads, tripDom, applyBtn, lastCall>>

\* ------------------------------------------------------------ loadCharts
\* loadCharts up to its await: both chart loads run to their own fetch.
loadCharts(loading) ==
    IF loading
    THEN UNCHANGED chartVars
    ELSE /\ chartsPc' = "await"
         /\ chartPc' = [c \in Charts |-> "fetch"]
         /\ chartBox' = [c \in Charts |-> "loading"]

\* isLoading after the synchronous part of loadCharts.
loadChartsFlag(loading) == IF loading THEN loading ELSE TRUE

\* Promise.all resolves once both chart loads have settled; the finally
\* block of loadCharts then clears the flag.
chartsFinally(pcs) ==
    IF \A c \in Charts : pcs[c] = "done"
    THEN chartsPc' = "done" /\ isLoading' = FALSE
    ELSE UNCHANGED <<chartsPc, isLoading>>

\* Variant: a failed chart load marks every chart container as failed.
chartDoneAllOrNothing(c, box) ==
    /\ chartPc' = [chartPc EXCEPT ![c] = "done"]
    /\ chartBox' = IF box = "failed"
                   THEN [x \in Charts |-> "failed"]
                   ELSE [chartBox EXCEPT ![c] = box]
    /\ chartsFinally([chartPc EXCEPT ![c] = "done"])

\* A chart load reaches its end with `box` in its container.
chartDone(c, box) ==
    /\ chartPc' = [chartPc EXCEPT ![c] = "done"]
    /\ chartBox' = [chartBox EXCEPT ![c] = box]
    /\ chartsFinally([chartPc EXCEPT ![c] = "done"])

\* await fetch('/api/patterns/...') settles.
ChartFetchSettles(c, ok) ==
    /\ chartPc[c] = "fetch"
    /\ IF ok
       THEN /\ chartPc' = [chartPc EXCEPT ![c] = "json"]
            /\ UNCHANGED <<chartBox, chartsPc, isLoading>>
       ELSE chartDone(c, "failed")
    /\ UNCHANGED <<currentPage, currentFilters, domLoaded, inputs, statsVars,
                   tripLoads, tripDom, applyBtn, lastCall>>

\* await response.json() settles and createBarChart runs: "bars" for a
\* non-empty series, "nodata" for a missing or empty one, "failed" when the
\* body is not JSON or an item makes createBarChart throw.
ChartJsonSettles(c, box) ==
    /\ chartPc[c] = "json"
    /\ chartDone(c, box)
    /\ UNCHANGED <<currentPage, currentFilters, domLoaded, inputs, statsVars,
                   tripLoads, tripDom, applyBtn, lastCall>>

\* -------------------------------------------------------------- handlers
DOMContentLoaded ==
    /\ ~domLoaded
    /\ domLoaded' = TRUE
    /\ loadStatistics
    /\ loadCharts(isLoading)
    /\ loadTrips(loadChartsFlag(isLoading), currentPage, currentFilters, FALSE)
    /\ lastCall' = Call("DOMContentLoaded", isLoading)
    /\ UNCHANGED <<currentPage, currentFilters, inputs, statTiles,
                   errorBanners, pageText, applyBtn>>

\* The user edits one of the filter inputs.
SetInput(k, v) ==
    /\ domLoaded
    /\ inputs[k] # v
    /\ Cardinality({x \in FilterKeys \ {k} : inputs[x] # ""}) < MaxFilled
    /\ inputs' = [inputs EXCEPT ![k] = v]
    /\ UNCHANGED <<globals, domLoaded, statsVars, chartVars, tripLoads,
                   tripDom, applyBtn, lastCall>>

\* The object applyFilters builds from the form: only the non-empty inputs.
formFilters(in) == [k \in {x \in FilterKeys : in[x] # ""} |-> in[k]]

\* Variant: the new filters are merged into the previously active ones.
applyFiltersMerging ==
    /\ domLoaded
    /\ lastCall' = Call("applyFilters", isLoading)
    /\ IF isLoading
       THEN UNCHANGED <<globals, tripLoads, tripDom, applyBtn>>
       ELSE LET merged == [k \in DOMAIN currentFilters \cup DOMAIN formFilters(inputs) |->
                              IF k \in DOMAIN formFilters(inputs)
                              THEN formFilters(inputs)[k] ELSE currentFilters[k]]
            IN /\ currentFilters' = merged
               /\ currentPage' = 1
               /\ loadTrips(isLoading, 1, merged, TRUE)
               /\ applyBtn' = ApplyBusy
               /\ UNCHANGED pageText
    /\ UNCHANGED <<domLoaded, inputs, statsVars, chartVars>>

applyFilters ==
    /\ domLoaded
    /\ lastCall' = Call("applyFilters", isLoading)
    /\ IF isLoading
       THEN UNCHANGED <<globals, tripLoads, tripDom, applyBtn>>
       ELSE /\ currentFilters' = formFilters(inputs)
            /\ currentPage' = 1
            /\ loadTrips(isLoading, 1, formFilters(inputs), TRUE)
            /\ applyBtn' = ApplyBusy
            /\ UNCHANGED pageText
    /\ UNCHANGED <<domLoaded, inputs, statsVars, chartVars>>

\* Variant: the page counter is left where it was.
resetFiltersKeepsPage ==
    /\ domLoaded
    /\ lastCall' = Call("resetFilters", isLoading)
    /\ inputs' = [k \in FilterKeys |-> ""]
    /\ currentFilters' = EmptyFilters
    /\ currentPage' = currentPage
    /\ loadTrips(isLoading, currentPage, EmptyFilters, FALSE)
    /\ UNCHANGED <<domLoaded, statsVars, chartVars, pageText, applyBtn>>

resetFilters ==
    /\ domLoaded
    /\ lastCall' = Call("resetFilters", isLoading)
    /\ inputs' = [k \in FilterKeys |-> ""]
    /\ currentFilters' = EmptyFilters
    /\ currentPage' = 1
    /\ loadTrips(isLoading, 1, EmptyFilters, FALSE)
    /\ UNCHANGED <<domLoaded, statsVars, chartVars, pageText, applyBtn>>

\* Variant: nextPage without the isLoading test.
nextPageUnguarded ==
    /\ domLoaded
    /\ currentPage < MaxPage
    /\ lastCall' = Call("nextPage", isLoading)
    /\ currentPage' = currentPage + 1
    /\ loadTrips(isLoading, currentPage + 1, currentFilters, FALSE)
    /\ UNCHANGED <<currentFilters, pageText>>
    /\ UNCHANGED <<domLoaded, inputs, statsVars, chartVars, applyBtn>>

nextPage ==
    /\ domLoaded
    /\ currentPage < MaxPage
    /\ lastCall' = Call("nextPage", isLoading)
    /\ IF ~isLoading
       THEN /\ currentPage' = currentPage + 1
            /\ loadTrips(isLoading, currentPage + 1, currentFilters, FALSE)
            /\ UNCHANGED <<currentFilters, pageText>>
       ELSE UNCHANGED <<globals, tripLoads, tripDom>>
    /\ UNCHANGED <<domLoaded, inputs, statsVars, chartVars, applyBtn>>

previousPage ==
    /\ domLoaded
    /\ lastCall' = Call("previousPage", isLoading)
    /\ IF currentPage > 1 /\ ~isLoading
       THEN /\ currentPage' = currentPage - 1
            /\ loadTrips(isLoading, currentPage - 1, currentFilters, FALSE)
            /\ UNCHANGED <<currentFilters, pageText>>
       ELSE UNCHANGED <<globals, tripLoads, tripDom>>
    /\ UNCHANGED <<domLoaded, inputs, statsVars, chartVars, applyBtn>>

\* --------------------------------------------------------- specification
Next ==
    \/ DOMContentLoaded /\ UNCHANGED nonPageVars
    \/ \E k \in FilterKeys, v \in InputValues : SetInput(k, v) /\ UNCHANGED nonPageVars
    \/ applyFilters /\ UNCHANGED nonPageVars
    \/ resetFilters /\ UNCHANGED nonPageVars
    \/ nextPage /\ UNCHANGED nonPageVars
    \/ previousPage /\ UNCHANGED nonPageVars
    \/ \E ok \in BOOLEAN : StatsFetchSettles(ok) /\ UNCHANGED nonPageVars
    \/ StatsRendered /\ UNCHANGED nonPageVars
    \/ StatsBad /\ UNCHANGED nonPageVars
    \/ BannerTimeout /\ UNCHANGED nonPageVars
    \/ \E c \in Charts, ok \in BOOLEAN : ChartFetchSettles(c, ok) /\ UNCHANGED nonPageVars
    \/ \E c \in Charts, b \in {"bars", "nodata", "failed"} : ChartJsonSettles(c, b) /\ UNCHANGED nonPageVars
    \/ \E i \in 1..Len(tripLoads), ok \in BOOLEAN : TripsFetchSettles(i, ok) /\ UNCHANGED nonPageVars
    \/ \E i \in 1..Len(tripLoads), r \in RowCounts : TripsRows(i, r) /\ UNCHANGED nonPageVars
    \/ \E i \in 1..Len(tripLoads) : TripsBad(i) /\ UNCHANGED nonPageVars

Spec == Init /\ [][Next]_vars

\* ----------------------------------------------------------- formatLabel
\* Characters of the labels: lower and upper case letters, a digit, the
\* underscore and the space.
LabelChars == {"a", "b", "A", "1", "_", " "}

\* \w of the regular expression: letters, digits and the underscore.
isWordChar(c) == c \in {"a", "b", "A", "B", "1", "_"}

\* String.prototype.toUpperCase on one character.
toUpperCase(c) == IF c = "a" THEN "A" ELSE IF c = "b" THEN "B" ELSE c

\* replace(/_/g, ' ')
replaceUnderscores(s) == [i \in 1..Len(s) |-> IF s[i] = "_" THEN " " ELSE s[i]]

\* replace(/\b\w/g, l => l.toUpperCase()): a word character at the start of
\* the string or after a non-word character is upper-cased.
capitalizeWords(s) ==
    [i \in 1..Len(s) |->
        IF isWordChar(s[i]) /\ (i = 1 \/ ~isWordChar(s[i - 1]))
        THEN toUpperCase(s[i]) ELSE s[i]]

\* Variant: the first regular expression lacks the g flag.
formatLabelFirstOnly(s) ==
    LET hits == {i \in 1..Len(s) : s[i] = "_"}
        first == IF hits = {} THEN 0 ELSE CHOOSE i \in hits : \A j \in hits : i <= j
    IN capitalizeWords([i \in 1..Len(s) |-> IF i = first THEN " " ELSE s[i]])

formatLabel(s) == capitalizeWords(replaceUnderscores(s))

\* Sequences over S of length at most n.
SeqsUpTo(S, n) == UNION {[1..k -> S] : k \in 0..n}

Labels == SeqsUpTo(LabelChars, MaxLabelLen)

\* formatLabel is applied to the label, then to its own result.
FormatOnce ==
    /\ labelStage = 0
    /\ labelOnce' = formatLabel(label)
    /\ labelStage' = 1
    /\ UNCHANGED <<label, labelTwice, pageVars, barVars, dashVars>>

FormatAgain ==
    /\ labelStage = 1
    /\ labelTwice' = formatLabel(labelOnce)
    /\ labelStage' = 2
    /\ UNCHANGED <<label, labelOnce, pageVars, barVars, dashVars>>

InitLabel ==
    /\ pageIdle
    /\ barIdle
    /\ dashIdle
    /\ insightIdle
    /\ label \in Labels
    /\ labelOnce = <<>>
    /\ labelTwice = <<>>
    /\ labelStage = 0

NextLabel == FormatOnce \/ FormatAgain

\* formatLabel on every label up to MaxLabelLen characters.
SpecLabel == InitLabel /\ [][NextLabel]_vars

\* -------------------------------------------------------- createBarChart
\* Labels of the items of a series.
ItemLabels == {<<"a", "_", "b">>, <<"A">>}

\* The items createBarChart reads: item[labelKey], item[valueKey].
Items == [label : ItemLabels, value : 0..MaxCount]

\* Math.max(...data.map(d => d[valueKey]))
maxValueOf(data) ==
    CHOOSE m \in {data[i].value : i \in 1..Len(data)} :
        \A i \in 1..Len(data) : data[i].value <= m

\* heightPercent as the exact fraction num / den.
heightPercent(v, maxValue) ==
    IF maxValue > 0 THEN [num |-> v * 100, den |-> maxValue]
                    ELSE [num |-> 0, den |-> 1]

\* Variant: the height is not floored.
barHeightNoFloor(v, maxValue) == heightPercent(v, maxValue)

\* Math.max(heightPercent, 1)
barHeight(v, maxValue) ==
    LET h == heightPercent(v, maxValue)
    IN IF h.num < h.den THEN [num |-> 1, den |-> 1] ELSE h

createBarChart ==
    /\ barBox = "blank"
    /\ IF Len(series) = 0
       THEN /\ barBox' = "nodata"
            /\ UNCHANGED <<barHeights, barLabels>>
       ELSE /\ barBox' = "bars"
            /\ barHeights' = [i \in 1..Len(series) |->
                                barHeight(series[i].value, maxValueOf(series))]
            /\ barLabels' = [i \in 1..Len(series) |-> formatLabel(series[i].label)]
    /\ UNCHANGED <<series, pageVars, labelVars, dashVars>>

InitBar ==
    /\ pageIdle
    /\ labelIdle
    /\ dashIdle
    /\ insightIdle
    /\ series \in SeqsUpTo(Items, MaxBars)
    /\ barBox = "blank"
    /\ barHeights = <<>>
    /\ barLabels = <<>>

NextBar == createBarChart

\* createBarChart on every series up to MaxBars items.
SpecBar == InitBar /\ [][NextBar]_vars

\* -------------------------------------------------------- chart dashboard
\* What a fetchData call can meet: fetch rejects, response.json rejects, the
\* envelope says success: false, a complete payload, or success: true with
\* the payload or one of its fields missing.
Outcomes == {"neterr", "badjson", "false", "ok", "malformed"}

\* fetchData: the catch block alerts and returns null.
fetchDataAlerts(o) == o \in {"neterr", "badjson"}

\* A load function renders on `data && data.success`, and throws while
\* rendering when the payload is incomplete.
loadRenders(o) == o = "ok"
loadThrows(o) == o = "malformed"

\* A load function suspended at `await fetchData(...)`.
NewCall(fn, id, query, joined, hides) ==
    [fn |-> fn, step |-> 1, id |-> id, query |-> query,
     joined |-> joined, hides |-> hides]

NoQuery == [k \in {} |-> ""]

\* loadStats after fetchData: all tiles, or the tiles before the missing field.
loadStats(o) ==
    IF loadRenders(o) THEN "rendered"
    ELSE IF loadThrows(o) THEN "partial" ELSE tiles

\* Variant: the previous chart instance is not destroyed.
loadChartNoDestroy(cv, o) ==
    IF loadRenders(o)
    THEN [set |-> TRUE, live |-> cv.live + 1, destroyed |-> cv.destroyed]
    ELSE cv

\* loadHourlyChart, loadDailyChart, loadSpeedChart, loadDurationChart after
\* fetchData: destroy the chart the variable holds, create the new one.
loadChart(cv, o) ==
    IF loadRenders(o)
    THEN [set |-> TRUE,
          live |-> (IF cv.set THEN cv.live - 1 ELSE cv.live) + 1,
          destroyed |-> (cv.destroyed \/ cv.set)]
    ELSE cv

\* loadTrips after fetchData: the rows of request c, or the table cleared
\* and left incomplete when a row cannot be formatted.
loadTripsRender(c, o) ==
    IF loadRenders(o) THEN [req |-> c.id, state |-> "rows"]
    ELSE IF loadThrows(o) THEN [req |-> c.id, state |-> "partial"] ELSE tbody

\* generateInsights after its step-th fetchData.
generateInsights(c, o) ==
    IF loadRenders(o) THEN [insightText EXCEPT ![c.step] = TRUE] ELSE insightText

\* The label generateInsights and loadHourlyChart give an hour of the day:
\* "12 AM", "<h> AM", "12 PM", "<h - 12> PM".
hourLabel(h) ==
    IF h = 0 THEN [n |-> 12, half |-> "AM"]
    ELSE IF h < 12 THEN [n |-> h, half |-> "AM"]
    ELSE IF h = 12 THEN [n |-> 12, half |-> "PM"]
    ELSE [n |-> h - 12, half |-> "PM"]

\* generateInsights, insight 1: the text written to #insight-peak-hours from
\* the busiest-hours payload hs (topHour = hours[0]).
peakInsight(o, hs) ==
    IF loadRenders(o)
    THEN LET topHour == hs[1]
         IN [text |-> "busiest", label |-> hourLabel(topHour.pickup_hour),
             trips |-> topHour.trip_count]
    ELSE peakHours

\* generateInsights goes on to its next fetchData.
continues(c, o) == c.fn = "insights" /\ ~loadThrows(o) /\ c.step < 3

\* The fetchData awaited by call i settles with outcome o and the load
\* function runs on: to its next await, to its end, or to a throw.  The
\* promise reactions follow: Promise.all of initDashboard (rejects with the
\* first rejection, fulfils with the last fulfilment) and the then() of the
\* click handlers.
Settles(i, o) ==
    LET c == calls[i]
        rest == RemoveAt(calls, i)
        ends == ~continues(c, o)
        joinedLeft == \E j \in 1..Len(rest) : rest[j].joined
        initEnds == /\ ends /\ c.joined /\ initPc = "await"
                    /\ (loadThrows(o) \/ ~joinedLeft)
    IN /\ calls' = IF ends THEN rest ELSE [calls EXCEPT ![i].step = c.step + 1]
       /\ tiles' = IF c.fn = "stats" THEN loadStats(o) ELSE tiles
       /\ canvas' = IF c.fn \in Canvases
                    THEN [canvas EXCEPT ![c.fn] = loadChart(canvas[c.fn], o)]
                    ELSE canvas
       /\ tbody' = IF c.fn = "trips" THEN loadTripsRender(c, o) ELSE tbody
       /\ insightText' = IF c.fn = "insights" THEN generateInsights(c, o)
                         ELSE insightText
       /\ initPc' = IF initEnds THEN "done" ELSE initPc
       /\ overlayHidden' =
            IF initEnds \/ (ends /\ c.hides /\ ~loadThrows(o))
            THEN TRUE ELSE overlayHidden
       /\ lastAlert' = IF fetchDataAlerts(o) THEN "connect"
                       ELSE IF initEnds /\ loadThrows(o) THEN "dashboard"
                       ELSE "none"
       /\ peakHours' = IF c.fn = "insights" /\ c.step = 1
                       THEN peakInsight(o, hours) ELSE peakHours
       /\ UNCHANGED <<dashLoaded, dashInputs, issued, lastShow, hours,
                      pageVars, barVars, labelVars>>

\* The DOMContentLoaded listener: initDashboard up to its await.
initDashboard ==
    /\ ~dashLoaded
    /\ dashLoaded' = TRUE
    /\ overlayHidden' = FALSE
    /\ lastShow' = "init"
    /\ initPc' = "await"
    /\ issued' = issued + 1
    /\ calls' = calls \o
         << NewCall("stats", 0, NoQuery, TRUE, FALSE),
            NewCall("hourly", 0, NoQuery, TRUE, FALSE),
            NewCall("daily", 0, NoQuery, TRUE, FALSE),
            NewCall("speed", 0, NoQuery, TRUE, FALSE),
            NewCall("duration", 0, NoQuery, TRUE, FALSE),
            NewCall("trips", issued + 1, NoQuery, TRUE, FALSE),
            NewCall("insights", 0, NoQuery, TRUE, FALSE) >>
    /\ lastAlert' = "none"
    /\ UNCHANGED <<tiles, canvas, tbody, insightText, dashInputs,
                   pageVars, barVars, labelVars,
                   hours, peakHours>>

\* The user edits one of the three filter inputs.
SetDashInput(k, v) ==
    /\ dashInputs[k] # v
    /\ Cardinality({x \in DashFilterKeys \ {k} : dashInputs[x] # ""}) < MaxFilled
    /\ dashInputs' = [dashInputs EXCEPT ![k] = v]
    /\ UNCHANGED <<dashLoaded, overlayHidden, initPc, calls, tiles, canvas,
                   tbody, insightText, issued, lastAlert, lastShow,
                   pageVars, barVars, labelVars,
                   hours, peakHours>>

\* The query string loadTrips builds: the filters that are non-empty.
queryString(filters) ==
    [k \in {x \in DOMAIN filters : filters[x] # ""} |-> filters[k]]

\* Click on apply-filters.
ApplyClick ==
    /\ issued < MaxTripLoads
    /\ overlayHidden' = FALSE
    /\ lastShow' = "click"
    /\ issued' = issued + 1
    /\ calls' = Append(calls,
         NewCall("trips", issued + 1, queryString(dashInputs), FALSE, TRUE))
    /\ lastAlert' = "none"
    /\ UNCHANGED <<dashLoaded, initPc, tiles, canvas, tbody, insightText,
                   dashInputs, pageVars, barVars, labelVars,
                   hours, peakHours>>

\* Click on reset-filters.
ResetClick ==
    /\ issued < MaxTripLoads
    /\ dashInputs' = [k \in DashFilterKeys |-> ""]
    /\ overlayHidden' = FALSE
    /\ lastShow' = "click"
    /\ issued' = issued + 1
    /\ calls' = Append(calls, NewCall("trips", issued + 1, NoQuery, FALSE, TRUE))
    /\ lastAlert' = "none"
    /\ UNCHANGED <<dashLoaded, initPc, tiles, canvas, tbody, insightText,
                   pageVars, barVars, labelVars,
                   hours, peakHours>>

\* One of the four chart load functions is called.
InvokeChartLoad(c) ==
    /\ Len(calls) < MaxChartCalls
    /\ calls' = Append(calls, NewCall(c, 0, NoQuery, FALSE, FALSE))
    /\ lastAlert' = "none"
    /\ UNCHANGED <<dashLoaded, overlayHidden, initPc, tiles, canvas, tbody,
                   insightText, dashInputs, issued, lastShow,
                   pageVars, barVars, labelVars,
                   hours, peakHours>>

InitDash == pageIdle /\ barIdle /\ labelIdle /\ dashInit /\ insightIdle

\* Page load of the chart dashboard: initDashboard and its seven loads.
NextInit ==
    \/ initDashboard
    \/ \E i \in 1..Len(calls), o \in Outcomes : Settles(i, o)

SpecInit == InitDash /\ [][NextInit]_vars

\* The filter buttons of the chart dashboard and the trip loads they start.
NextTrips ==
    \/ \E k \in DashFilterKeys, v \in InputValues : SetDashInput(k, v)
    \/ ApplyClick
    \/ ResetClick
    \/ \E i \in 1..Len(calls), o \in Outcomes : Settles(i, o)

SpecTrips == InitDash /\ [][NextTrips]_vars

\* Chart loads called any number of times, in any order.
NextCharts ==
    \/ \E c \in Canvases : InvokeChartLoad(c)
    \/ \E i \in 1..Len(calls), o \in Outcomes : Settles(i, o)

SpecCharts == InitDash /\ [][NextCharts]_vars

\* Hours of the day the aggregate can hold: one for each branch of hourLabel.
HourValues == {0, 9, 12, 18}

\* The arrays /analytics/busiest-hours can answer with: one entry per hour,
\* in any order, up to MaxHours entries.
HourPayloads ==
    {hs \in SeqsUpTo([pickup_hour : HourValues, trip_count : 0..MaxCount], MaxHours) :
        /\ Len(hs) > 0
        /\ \A i, j \in 1..Len(hs) : i # j => hs[i].pickup_hour # hs[j].pickup_hour}

\* generateInsights is called.
InvokeInsights ==
    /\ Len(calls) = 0
    /\ calls' = Append(calls, NewCall("insights", 0, NoQuery, FALSE, FALSE))
    /\ lastAlert' = "none"
    /\ UNCHANGED <<dashLoaded, overlayHidden, initPc, tiles, canvas, tbody,
                   insightText, dashInputs, issued, lastShow,
                   pageVars, barVars, labelVars, hours, peakHours>>

InitInsights ==
    /\ pageIdle
    /\ barIdle
    /\ labelIdle
    /\ dashInit
    /\ hours \in HourPayloads
    /\ peakHours = [text |-> "static"]

NextInsights ==
    \/ InvokeInsights
    \/ \E i \in 1..Len(calls), o \in Outcomes : Settles(i, o)

\* generateInsights on every busiest-hours payload up to MaxHours entries.
SpecInsights == InitInsights /\ [][NextInsights]_vars

\* ------------------------------------------------------------ properties
\* No charts load and no trips load is suspended at an await.
noLoadInFlight == chartsPc # "await" /\ Len(tripLoads) = 0

\* The step issues a /api/trips request; its parameters.
issuesTripsRequest == Len(tripLoads') = Len(tripLoads) + 1
issuedParams == tripLoads'[Len(tripLoads')].params

\* C1: after page load, once every fetch of the page load has completed
\* successfully and with no handler invoked since, the trip table has been
\* rendered from a /api/trips response.
C1_PageLoadRendersTrips ==
    ( /\ lastCall.op = "DOMContentLoaded"
      /\ statsPc = "done" /\ statTiles = "rendered"
      /\ chartsPc = "done"
      /\ \A c \in Charts : chartBox[c] \in {"bars", "nodata"}
      /\ Len(tripLoads) = 0 )
    => tableContainer.kind \in {"table", "empty"}

\* C2: at most one /api/trips request is outstanding in every reachable state.
C2_AtMostOneTripsRequest == Len(tripLoads) <= 1

\* A handler was invoked while the single trips request was outstanding.
C2_Witness == Len(tripLoads) = 1 /\ lastCall = Call("resetFilters", TRUE)

\* C3: isLoading is false whenever no load is in flight (every load clears
\* the flag on success, failure and empty result), and after a failed load
\* the next nextPage, applyFilters or resetFilters issues a new fetch.
C3_FlagClearedOnEveryExit ==
    /\ [](noLoadInFlight => ~isLoading)
    /\ [][ ( /\ noLoadInFlight
             /\ (tableContainer.kind = "error" \/ \E c \in Charts : chartBox[c] = "failed")
             /\ (nextPage \/ applyFilters \/ resetFilters) )
           => issuesTripsRequest ]_vars

\* A trips load has failed and nothing is in flight.
C3_Witness == tableContainer.kind = "error" /\ noLoadInFlight /\ ~isLoading

\* C4: nextPage or previousPage invoked while isLoading is true issues no
\* request and leaves currentPage unchanged.
C4_PagingWhileLoadingIsNoOp ==
    [][ (isLoading /\ (nextPage \/ previousPage))
        => UNCHANGED <<currentPage, tripLoads>> ]_vars

\* nextPage was invoked while a load was in progress.
C4_Witness == lastCall = Call("nextPage", TRUE) /\ isLoading

\* C5: applyFilters or resetFilters invoked while isLoading is true issues
\* no fetch and leaves currentFilters and currentPage unchanged.
C5_FilterActionWhileLoadingIsNoOp ==
    [][ (isLoading /\ (applyFilters \/ resetFilters))
        => UNCHANGED <<currentFilters, currentPage, tripLoads>> ]_vars

\* What resetFilters is to achieve: filters cleared, page 1, and a request
\* for offset 0 without filter parameters issued.
resetReloads ==
    /\ currentFilters' = EmptyFilters
    /\ currentPage' = 1
    /\ issuesTripsRequest
    /\ issuedParams.offset = 0
    /\ issuedParams.limit = 50
    /\ DOMAIN issuedParams.filters = {}

\* C6 as stated: resetFilters reloads page 1 of the unfiltered list in any
\* reachable state.
C6_ResetAlwaysReloads == [][ resetFilters => resetReloads ]_vars

\* C6 amended: resetFilters invoked while no load is in progress clears the
\* filters, sets page 1 and issues the offset-0 request without filters.
C6_ResetReloadsWhenIdle == [][ (~isLoading /\ resetFilters) => resetReloads ]_vars

\* resetFilters ran while idle and its request is outstanding.
C6_Witness ==
    /\ lastCall = Call("resetFilters", FALSE)
    /\ Len(tripLoads) = 1
    /\ tripLoads[1].params.offset = 0
    /\ currentPage = 1 /\ currentFilters = EmptyFilters

\* C7: applyFilters invoked while idle sets page 1, makes currentFilters
\* exactly the non-empty inputs, and issues exactly one offset-0 request
\* carrying those filters.
C7_ApplyReplacesFilters ==
    [][ (~isLoading /\ applyFilters) =>
          /\ currentPage' = 1
          /\ DOMAIN currentFilters' = {k \in FilterKeys : inputs[k] # ""}
          /\ \A k \in DOMAIN currentFilters' : currentFilters'[k] = inputs[k]
          /\ issuesTripsRequest
          /\ Len(tripLoads') = 1
          /\ issuedParams.offset = 0
          /\ issuedParams.limit = 50
          /\ issuedParams.filters = currentFilters' ]_vars

\* applyFilters ran while idle with a filled input; its request is outstanding.
C7_Witness ==
    /\ lastCall = Call("applyFilters", FALSE)
    /\ applyBtn = ApplyBusy
    /\ Len(tripLoads) = 1
    /\ DOMAIN tripLoads[1].params.filters # {}

\* C8: every request issued carries limit 50 and offset (currentPage-1)*50
\* for currentPage at the time of issue, and currentPage >= 1 always.
C8_OffsetMatchesPage ==
    /\ [](currentPage >= 1)
    /\ [][ issuesTripsRequest =>
             /\ issuedParams.limit = 50
             /\ issuedParams.offset = (currentPage' - 1) * 50
             /\ issuedParams.offset >= 0 ]_vars

\* A request for a page beyond the first is outstanding.
C8_Witness ==
    /\ Len(tripLoads) = 1
    /\ currentPage > 1
    /\ tripLoads[1].params.offset = (currentPage - 1) * 50

\* C9: whenever no trip load is in progress and one has finished (rows,
\* empty result or failure), "previous" is disabled exactly when page = 1.
C9_PrevDisabledIffFirstPage ==
    (Len(tripLoads) = 0 /\ tableContainer.kind \in {"table", "empty", "error"})
    => (prevBtn <=> currentPage = 1)

\* C10: after a load received r rows, "next" is disabled exactly when
\* r < 50 (r = 0 included) and enabled when r >= 50.
C10_NextDisabledIffShortPage ==
    /\ tableContainer.kind = "table" => (nextBtn <=> tableContainer.rows < 50)
    /\ tableContainer.kind = "empty" => nextBtn

\* A full page was received and "next" is enabled.
C10_Witness ==
    /\ tableContainer.kind = "table"
    /\ tableContainer.rows = 50
    /\ ~nextBtn
    /\ Len(tripLoads) = 0

\* C11: whenever isLoading is true, the previous-page, next-page and
\* apply-filters controls are all disabled.
C11_ControlsDisabledWhileLoading ==
    isLoading => (prevBtn /\ nextBtn /\ applyBtn.disabled)

\* C12: at page load a failure of one load never keeps another load whose
\* fetch succeeded from rendering: a step of one load leaves the other
\* loads' regions alone, and a successful response is rendered whatever the
\* state of the others.
C12_LoadsAreIsolated ==
    [][ /\ \A c \in Charts : chartPc'[c] = chartPc[c] => chartBox'[c] = chartBox[c]
        /\ statsPc' = statsPc => statTiles' = statTiles
        /\ \A c \in Charts : ChartJsonSettles(c, "bars") => chartBox'[c] = "bars"
        /\ StatsRendered => statTiles' = "rendered" ]_vars

\* /api/stats failed, the other chart failed, the time chart is rendered.
C12_Witness ==
    /\ statsPc = "done" /\ statTiles = "blank"
    /\ chartPc["timeChart"] = "done" /\ chartBox["timeChart"] = "bars"
    /\ chartBox["speedChart"] = "failed"

\* C20: when a successful load puts rows in the table, the page number it
\* writes, and the previous-button state, are those of the request that
\* produced the rows (offset / 50 + 1).
C20_PageTextMatchesRequest ==
    [][ (Len(tripLoads) = 1 /\ Len(tripLoads') = 0 /\ tableContainer'.kind = "table")
        => /\ pageText' = (tripLoads[1].params.offset \div 50) + 1
           /\ prevBtn' = (tripLoads[1].params.offset = 0) ]_vars

\* The page a suspended loadTrips asked for (offset = (page - 1) * 50).
requestedPage(i) == (tripLoads[i].params.offset \div itemsPerPage) + 1

\* The load i ends in the catch block of loadTrips.
tripLoadFails(i) == TripsFetchSettles(i, FALSE) \/ TripsBad(i)

\* The last handler invoked was a page navigation that acted.
navigated(op) == lastCall = Call(op, FALSE)

\* C21: when the trip load started by nextPage or previousPage fails,
\* currentPage is back at its value before the navigation (one less than the
\* page requested by nextPage, one more than that requested by previousPage),
\* so that the same navigation would request the same page again.
C21_FailedNavigationKeepsPage ==
    [][ \A i \in 1..Len(tripLoads) : tripLoadFails(i) =>
          /\ navigated("nextPage") =>
               /\ currentPage' = requestedPage(i) - 1
               /\ tripParams(currentPage' + 1, currentFilters').offset
                    = tripLoads[i].params.offset
          /\ navigated("previousPage") =>
               /\ currentPage' = requestedPage(i) + 1
               /\ tripParams(currentPage' - 1, currentFilters').offset
                    = tripLoads[i].params.offset ]_vars

\* The largest value of the series drawn and the positions holding it.
isFull(h) == h.num = 100 * h.den
atLeastFloor(h) == h.num >= h.den
tallest == {i \in 1..Len(series) : series[i].value = maxValueOf(series)}

\* C17 as stated: for every non-empty series of non-negative counts the bar
\* of the largest value is at 100% and every bar is at least 1% high.
C17_TallestBarIsFull ==
    barBox = "bars" =>
        /\ \A i \in tallest : isFull(barHeights[i])
        /\ \A i \in 1..Len(series) : atLeastFloor(barHeights[i])

\* C17 amended: the same for every series with at least one positive count.
C17_TallestBarIsFullWhenPositive ==
    (barBox = "bars" /\ maxValueOf(series) > 0) =>
        /\ \A i \in tallest : isFull(barHeights[i])
        /\ \A i \in 1..Len(series) : atLeastFloor(barHeights[i])

\* A drawn series with a zero count next to a positive one.
C17_Witness ==
    /\ barBox = "bars"
    /\ \E i, j \in 1..Len(series) : series[i].value = 0 /\ series[j].value = MaxCount
    /\ \E i \in 1..Len(series) : barHeights[i] = [num |-> 1, den |-> 1]

\* C19: formatLabel(formatLabel(x)) = formatLabel(x) for every label over
\* letters, digits, underscores and spaces.
C19_FormatLabelIdempotent == labelStage = 2 => labelTwice = labelOnce

\* formatLabel was applied twice to a label that it changes.
C19_Witness ==
    /\ labelStage = 2
    /\ labelOnce # label
    /\ \E i \in 1..Len(label) : label[i] = "_"

\* C13: initDashboard hides the overlay only after all seven loads have
\* settled, whatever the outcome of each.
C13_OverlayHiddenAfterAllSettled ==
    initPc = "done" => \A j \in 1..Len(calls) : ~calls[j].joined

\* C14: once the trip load started by a filter click has ended, whatever
\* its outcome, the overlay the click showed is hidden.
C14_OverlayHiddenAfterClick ==
    (lastShow = "click" /\ Len(calls) = 0) => overlayHidden

\* C15: a success: false envelope is handled like a connectivity failure:
\* nothing is rendered and an error is surfaced.
C15_SuccessFalseSurfacesError ==
    [][ \A i \in 1..Len(calls) : Settles(i, "false") =>
          /\ UNCHANGED <<tiles, canvas, tbody, insightText>>
          /\ lastAlert' # "none" ]_vars

\* C16: the rows of an older request never replace those of a newer one.
C16_LatestRequestWins == [][ tbody'.req >= tbody.req ]_vars

\* C18: at most one live chart instance is bound to each canvas.
C18_OneLiveChartPerCanvas == \A c \in Canvases : canvas[c].live <= 1

\* A chart was destroyed and replaced on one canvas while another canvas
\* has its first chart.
C18_Witness ==
    /\ \E c \in Canvases : canvas[c].destroyed /\ canvas[c].live = 1
    /\ \E c \in Canvases : canvas[c].set /\ ~canvas[c].destroyed

\* The highest trip_count among the entries of the busiest-hours payload.
maxTripCount ==
    CHOOSE m \in {hours[j].trip_count : j \in 1..Len(hours)} :
        \A j \in 1..Len(hours) : hours[j].trip_count <= m

\* C22: once generateInsights has written the peak-hours insight, the hour
\* it names is an hour whose trip_count is the highest of the entries the
\* busiest-hours endpoint returned, whatever their order, and the count it
\* states is that count.
C22_PeakInsightNamesBusiestHour ==
    peakHours.text = "busiest" =>
        \E j \in 1..Len(hours) :
            /\ hours[j].trip_count = maxTripCount
            /\ peakHours.label = hourLabel(hours[j].pickup_hour)
            /\ peakHours.trips = hours[j].trip_count

====
